---- MODULE Spec2Model ----
(***************************************************************************)
(* A model of src/bikes.py: the SearchQuery class (params, url, status,    *)
(* results, json), the network and the two file trees it writes to.        *)
(*                                                                         *)
(* Python values are modelled as follows.                                  *)
(*   str            a sequence of one-character strings                    *)
(*   None / a value <<>> / <<value>>   (None, Some)                        *)
(*   dict           a sequence of <<key, value>> pairs with distinct keys, *)
(*                  in insertion order                                     *)
(*   list           a sequence                                             *)
(***************************************************************************)
EXTENDS Naturals, Sequences, FiniteSets

VARIABLES
    params,     \* self.params : None or Some(dict str -> (None or Some(str)))
    url,        \* self.url    : str
    status,     \* self.status : None or Some(status code)
    results,    \* self.results: None or Some(list of records)
    json,       \* self.json   : None or Some(decoded body)
    dirs,       \* directories that exist beside the module file (names)
    files,      \* files in those directories: <<dir, filename, bytes>>
    cwd,        \* files of the working directory: <<filename, text>>
    op,         \* the call that produced this state
    arg,        \* that call's argument (None when it has none)
    ret,        \* that call's return value (None or Some(value))
    raised,     \* the exception that call let through, or "none"
    reqs,       \* the network requests that call issued, in order
    writes,     \* the file writes that call completed, in order
    ok200       \* history: some get so far saw status 200 with params set

vars == <<params, url, status, results, json, dirs, files, cwd,
          op, arg, ret, raised, reqs, writes, ok200>>

\* ------------------------------------------------------------ bounds
MaxLen == 5
MaxBikes == 2
MaxSmall == 1
MaxEntries == 3

\* ------------------------------------------------------------ values
None == <<>>
Some(x) == <<x>>
IsNone(o) == o = <<>>
Val(o) == o[1]

\* ------------------------------------------------------------ str
RECURSIVE StringsOfLen(_, _)
StringsOfLen(A, n) ==
    IF n = 0 THEN {<<>>}
    ELSE {<<c>> \o s : c \in A, s \in StringsOfLen(A, n - 1)}

StringsUpTo(A, n) == UNION {StringsOfLen(A, k) : k \in 0..n}

Whitespace == {" "}

Drop(s, n) == SubSeq(s, n + 1, Len(s))
Take(s, n) == SubSeq(s, 1, n)

RECURSIVE LStrip(_)
LStrip(s) ==
    IF s # <<>> /\ s[1] \in Whitespace THEN LStrip(Drop(s, 1)) ELSE s

RECURSIVE RStrip(_)
RStrip(s) ==
    IF s # <<>> /\ s[Len(s)] \in Whitespace THEN RStrip(Take(s, Len(s) - 1)) ELSE s

Strip(s) == RStrip(LStrip(s))

\* str.split(sep) for a one-character sep: always at least one piece.
RECURSIVE Split(_, _)
Split(s, sep) ==
    IF \A i \in 1..Len(s) : s[i] # sep THEN <<s>>
    ELSE LET i == CHOOSE k \in 1..Len(s) :
                      s[k] = sep /\ \A j \in 1..(k - 1) : s[j] # sep
         IN  <<Take(s, i - 1)>> \o Split(Drop(s, i), sep)

EndsWith(s, suf) ==
    Len(suf) <= Len(s) /\ SubSeq(s, Len(s) - Len(suf) + 1, Len(s)) = suf

RemoveSuffix(s, suf) ==
    IF suf # <<>> /\ EndsWith(s, suf) THEN Take(s, Len(s) - Len(suf)) ELSE s

\* ------------------------------------------------------------ dict
Keys(d) == {d[i][1] : i \in 1..Len(d)}

Lookup(d, k) == d[CHOOSE i \in 1..Len(d) : d[i][1] = k][2]

\* d[k] = v of a dict: a new key goes last, an old key keeps its place.
DictPutFirstWins(d, k, v) ==
    IF k \in Keys(d) THEN d ELSE Append(d, <<k, v>>)

DictPut(d, k, v) ==
    IF k \in Keys(d)
    THEN [i \in 1..Len(d) |-> IF d[i][1] = k THEN <<k, v>> ELSE d[i]]
    ELSE Append(d, <<k, v>>)

\* ------------------------------------------------------------ pure methods
\* The constant prefix of every url, kept as one element: no method looks
\* inside it.
base_url == <<"https://bikeindex.org/api/v3/search?">>

\* The loop of url_builder: base_url += f"{par}={val}&" for the entries whose
\* value is neither None nor "".
RECURSIVE UrlLoop(_, _)
UrlLoop(items, acc) ==
    IF items = <<>> THEN acc
    ELSE LET par == items[1][1]
             val == items[1][2]
         IN  UrlLoop(Tail(items),
                     IF val # None /\ val # Some(<<>>)
                     THEN acc \o par \o <<"=">> \o Val(val) \o <<"&">>
                     ELSE acc)

url_builder_keeps_separator(p) ==
    IF IsNone(p) THEN base_url ELSE UrlLoop(Val(p), base_url)

url_builder(p) ==
    IF IsNone(p) THEN base_url
    ELSE RemoveSuffix(UrlLoop(Val(p), base_url), <<"&">>)

is_empty(p) == IsNone(p)

\* The loop of _subdir_name: name += f"{par}={val}_" unless val is None.
RECURSIVE NameLoop(_, _)
NameLoop(items, acc) ==
    IF items = <<>> THEN acc
    ELSE LET par == items[1][1]
             val == items[1][2]
         IN  NameLoop(Tail(items),
                      IF val = None THEN acc
                      ELSE acc \o par \o <<"=">> \o Val(val) \o <<"_">>)

_subdir_name(p) ==
    IF is_empty(p) THEN None
    ELSE LET name == RemoveSuffix(NameLoop(Val(p), <<>>), <<"_">>)
         IN  Some(IF EndsWith(name, <<"&", " ", "C">>)
                  THEN RemoveSuffix(name, <<"&", " ", "C">>)
                  ELSE name)

\* The dict comprehension of split_params, segment by segment.
RECURSIVE ParamDict(_, _)
ParamDict(split, acc) ==
    IF split = <<>> THEN acc
    ELSE LET kv == Split(split[1], "=")
         IN  ParamDict(Tail(split),
                       DictPut(acc, Strip(kv[1]), Some(Strip(kv[2]))))

split_params(p_string) ==
    IF IsNone(p_string) THEN None
    ELSE LET split == Split(Strip(Val(p_string)), "-")
         IN  IF \E i \in 1..Len(split) : Len(Split(split[i], "=")) < 2
             THEN None                       \* IndexError, caught
             ELSE Some(ParamDict(split, <<>>))

\* ------------------------------------------------------------ data
Rec(t, img) == [title |-> t, large_img |-> img]

RECURSIVE SeqsOfLen(_, _)
SeqsOfLen(S, n) ==
    IF n = 0 THEN {<<>>}
    ELSE {<<x>> \o s : x \in S, s \in SeqsOfLen(S, n - 1)}

SeqsUpTo(S, n) == UNION {SeqsOfLen(S, k) : k \in 0..n}

\* A decoded response body: a JSON object that may lack "bikes", or hold null
\* there (bikes = None), or hold a list of records.
Body(has, b) == [has_bikes |-> has, bikes |-> b]

Bodies(Recs, n) ==
    {Body(TRUE, Some(b)) : b \in SeqsUpTo(Recs, n)}
        \cup {Body(FALSE, None), Body(TRUE, None)}

\* What requests.get(self.url) can bring: an exception, a body that is not
\* JSON, or a JSON body.
GetOutcomes(Recs, n) ==
    {[kind |-> "raise", body |-> Body(FALSE, None)],
     [kind |-> "invalid", body |-> Body(FALSE, None)]}
        \cup {[kind |-> "json", body |-> b] : b \in Bodies(Recs, n)}

\* What requests.head(self.url) can bring: a status code (0 stands for an
\* exception: no connection, a timeout).
HeadOutcomes == {0, 200, 404}

Request(m, u) == [method |-> m, url |-> u]

\* The bytes a download of an image url brings; an empty file holds <<>>.
ContentOf(u) == <<"bytes of", u>>

\* json.dumps(self.json, indent=4)
json_dumps(j) == <<"text of", j>>

\* ------------------------------------------------------------ calls
Call(name, a, r, exc, rq, wr) ==
    /\ op' = name
    /\ arg' = a
    /\ ret' = r
    /\ raised' = exc
    /\ reqs' = rq
    /\ writes' = wr

\* __init__
Construct(ps) ==
    /\ params = ps
    /\ url = url_builder(ps)
    /\ status = None
    /\ results = None
    /\ json = None
    /\ dirs = {}
    /\ files = {}
    /\ cwd = {}
    /\ op = "init"
    /\ arg = None
    /\ ret = None
    /\ raised = "none"
    /\ reqs = <<>>
    /\ writes = <<>>
    /\ ok200 = FALSE

reset_url ==
    /\ url' = url_builder(params)
    /\ Call("reset_url", None, None, "none", <<>>, <<>>)
    /\ UNCHANGED <<params, status, results, json, dirs, files, cwd, ok200>>

get_status ==
    \E h \in HeadOutcomes :
        /\ status' = IF h = 0 THEN status ELSE Some(h)
        /\ Call("get_status", None, None,
                IF h = 0 THEN "RequestException" ELSE "none",
                <<Request("HEAD", url)>>, <<>>)
        /\ UNCHANGED <<params, url, results, json, dirs, files, cwd, ok200>>

set_params_from(Inputs) ==
    \E p_string \in Inputs :
        /\ params' = split_params(p_string)
        /\ Call("set_params", p_string, None, "none", <<>>, <<>>)
        /\ UNCHANGED <<url, status, results, json, dirs, files, cwd, ok200>>

\* set_results: list(result["bikes"]) raises KeyError without the key and
\* TypeError on null.
set_results_raises(j) == ~j.has_bikes \/ j.bikes = None
set_results(j) == j.bikes

RejectedAlways(st, ps) == FALSE
RejectedIgnoresParams(st, ps) == st # Some(200)
\* line 48
Rejected(st, ps) == st # Some(200) \/ is_empty(ps)

\* self.json when set_results(j) raised: line 56 is never reached.
JsonStoredBeforeExtract(j) == Some(j)
JsonAfterFailedExtract(j) == json

get_from(Recs, n) ==
    \E h \in HeadOutcomes :
        LET u == url_builder(params)                      \* reset_url
            st == IF h = 0 THEN status ELSE Some(h)       \* get_status
            head == Request("HEAD", u)
            fetch == Request("GET", u)
        IN  /\ url' = u
            /\ status' = st
            /\ ok200' = (ok200 \/ (h = 200 /\ params # None))
            /\ UNCHANGED <<params, dirs, files, cwd>>
            /\ IF h = 0
               THEN /\ Call("get", None, None, "RequestException", <<head>>, <<>>)
                    /\ UNCHANGED <<results, json>>
               ELSE IF Rejected(st, params)
               THEN /\ Call("get", None, None, "none", <<head>>, <<>>)
                    /\ UNCHANGED <<results, json>>
               ELSE \E g \in GetOutcomes(Recs, n) :
                    /\ IF g.kind = "raise"
                       THEN /\ Call("get", None, None, "RequestException",
                                    <<head, fetch>>, <<>>)
                            /\ UNCHANGED <<results, json>>
                       ELSE IF g.kind = "invalid"
                       THEN /\ Call("get", None, None, "JSONDecodeError",
                                    <<head, fetch>>, <<>>)
                            /\ UNCHANGED <<results, json>>
                       ELSE IF set_results_raises(g.body)
                       THEN /\ Call("get", None, None,
                                    IF g.body.has_bikes THEN "TypeError"
                                                        ELSE "KeyError",
                                    <<head, fetch>>, <<>>)
                            /\ json' = JsonAfterFailedExtract(g.body)
                            /\ UNCHANGED results
                       ELSE /\ results' = set_results(g.body)
                            /\ json' = Some(g.body)
                            /\ Call("get", None, Some(g.body), "none",
                                    <<head, fetch>>, <<>>)

preview ==
    /\ Call("preview", None, None,
            IF results = None THEN "TypeError" ELSE "none", <<>>, <<>>)
    /\ UNCHANGED <<params, url, status, results, json, dirs, files, cwd, ok200>>

\* ------------------------------------------------------------ files
Last(s) == s[Len(s)]

\* The image descriptors of save_images, lines 70-74.
RECURSIVE Images(_)
Images(rs) ==
    IF rs = <<>> THEN <<>>
    ELSE (IF rs[1].large_img # None
          THEN <<[title |-> rs[1].title, url |-> Val(rs[1].large_img)]>>
          ELSE <<>>) \o Images(Tail(rs))

FileNameFirstSuffix(i) == i.title \o <<".">> \o Split(i.url, ".")[2]
\* lines 84-85
FileName(i) == i.title \o <<".">> \o Last(Split(i.url, "."))

\* open(path, 'wb') followed by file.write(bytes): the file holds bytes,
\* whatever it held.
WriteFile(fs, d, name, bytes) ==
    {f \in fs : ~(f[1] = d /\ f[2] = name)} \cup {<<d, name, bytes>>}

\* The loop of lines 83-89 over images[1..n], every download succeeding.
RECURSIVE WriteImages(_, _, _, _)
WriteImages(fs, d, images, n) ==
    IF n = 0 THEN fs
    ELSE WriteFile(WriteImages(fs, d, images, n - 1), d,
                   FileName(images[n]), ContentOf(images[n].url))

\* _subdir: the directory beside the module file exists afterwards
\* (name "" is that directory itself).
DirExists(name) == name = <<>> \/ name \in dirs
_subdir(name) == IF DirExists(name) THEN dirs ELSE dirs \cup {name}

\* The file of a download that raised: open(path, 'wb') ran before
\* requests.get, so the file exists and is empty.
FileAfterFailedDownload(fs, d, name) == WriteFile(fs, d, name, <<>>)

DirsBeforeFilter(images, name) ==
    IF name = None THEN dirs ELSE _subdir(Val(name))

\* The directories after save_images: _subdir is called only when at least
\* one image qualifies (line 76 returns before line 79).
DirsAfterSave(images, name) ==
    IF images = <<>> \/ name = None THEN dirs ELSE _subdir(Val(name))

save_images_from(Names) ==
    \E dir_name \in Names :
        /\ UNCHANGED <<params, url, status, results, json, cwd, ok200>>
        /\ IF results = None
           THEN /\ Call("save_images", dir_name, None, "TypeError", <<>>, <<>>)
                /\ UNCHANGED <<dirs, files>>
           ELSE LET name == IF dir_name = None THEN _subdir_name(params)
                                               ELSE dir_name
                    images == Images(Val(results))
                    n == Len(images)
                IN  /\ dirs' = DirsAfterSave(images, name)
                    /\ IF n < 1 \/ name = None
                       THEN /\ Call("save_images", dir_name, None, "none",
                                    <<>>, <<>>)
                            /\ UNCHANGED files
                       ELSE \E k \in 1..(n + 1) :   \* the download that fails
                            LET d == Val(name)
                                done == WriteImages(files, d, images, k - 1)
                                got == [i \in 1..(k - 1) |->
                                           <<d, FileName(images[i]),
                                             ContentOf(images[i].url)>>]
                                asked(m) == [i \in 1..m |->
                                                Request("GET", images[i].url)]
                            IN  IF k = n + 1
                                THEN /\ files' = done
                                     /\ Call("save_images", dir_name,
                                             Some(images), "none", asked(n), got)
                                ELSE /\ files' = FileAfterFailedDownload(
                                                    done, d, FileName(images[k]))
                                     /\ Call("save_images", dir_name, None,
                                             "RequestException", asked(k), got)

\* cache_json: None + ".json" raises TypeError; a PermissionError of open is
\* caught (denied = TRUE).
cache_json_from(Names) ==
    \E name \in Names, denied \in BOOLEAN :
        /\ UNCHANGED <<params, url, status, results, json, dirs, files, ok200>>
        /\ IF name = None /\ _subdir_name(params) = None
           THEN /\ ~denied
                /\ Call("cache_json", name, None, "TypeError", <<>>, <<>>)
                /\ UNCHANGED cwd
           ELSE LET n1 == IF name = None
                          THEN Val(_subdir_name(params)) \o <<".", "j", "s", "o", "n">>
                          ELSE Val(name)
                    n2 == IF EndsWith(n1, <<".", "j", "s", "o", "n">>) THEN n1
                          ELSE n1 \o <<".", "j", "s", "o", "n">>
                IN  /\ cwd' = IF denied THEN cwd
                              ELSE {f \in cwd : f[1] # n2}
                                       \cup {<<n2, json_dumps(json)>>}
                    /\ Call("cache_json", name, None, "none", <<>>,
                            IF denied THEN <<>> ELSE <<<<n2>>>>)

\* A call of the helper _subdir_name on its own.
subdir_name ==
    /\ Call("_subdir_name", None, _subdir_name(params), "none", <<>>, <<>>)
    /\ UNCHANGED <<params, url, status, results, json, dirs, files, cwd, ok200>>

\* ------------------------------------------------------------ inputs
\* Constructor arguments of the object specifications.
CtorSmall == {None, Some(<< <<<<"a">>, Some(<<"1">>)>> >>)}

\* set_params arguments: "a=1" and the malformed "a".
SmallInputs == {Some(<<"a", "=", "1">>), Some(<<"a">>)}

DirNames == {None, Some(<<"o">>)}
CacheNames == {None, Some(<<"o">>)}

\* Records: without an image, and with two images of the same title whose
\* urls differ and end in the same suffix.
RecsSmall == {Rec(<<"X">>, Some(<<"h", ".", "j">>))}
RecsImg ==
    {Rec(<<"Y">>, None),
     Rec(<<"X">>, Some(<<"h", ".", "j">>)),
     Rec(<<"X">>, Some(<<"g", ".", "b", ".", "j">>))}

\* ------------------------------------------------------------ Spec
\* Any sequence of calls on one SearchQuery object.
Init == \E ps \in CtorSmall : Construct(ps)

set_params == set_params_from(SmallInputs)
get == get_from(RecsSmall, MaxSmall)
save_images == save_images_from(DirNames)
cache_json == cache_json_from(CacheNames)

Next ==
    \/ set_params
    \/ reset_url
    \/ get_status
    \/ get
    \/ save_images
    \/ cache_json
    \/ preview

Spec == Init /\ [][Next]_vars

\* ------------------------------------------------------------ SpecImg
\* Fetching and saving images, over results with and without images.
InitImg == \E ps \in CtorSmall : Construct(ps)

choose_params == set_params_from(SmallInputs)
fetch_images == get_from(RecsImg, MaxBikes)
save_fetched == save_images_from(DirNames)

NextImg ==
    \/ choose_params
    \/ fetch_images
    \/ save_fetched

SpecImg == InitImg /\ [][NextImg]_vars

\* ------------------------------------------------------------ SpecParse
\* The opening of interactive_demo: a fresh object, set_params on the line
\* read from the console, then the url and the derived name.
Alphabet == {"a", "=", "-", " ", "&", "C"}
\* The lines of at most n characters, and None.
Lines(n) == {None} \cup {Some(s) : s \in StringsUpTo(Alphabet, n)}

InitParse == Construct(None)

demo_set_params == op = "init" /\ set_params_from(Lines(MaxLen))

NextParse ==
    \/ demo_set_params
    \/ reset_url
    \/ subdir_name

SpecParse == InitParse /\ [][NextParse]_vars

\* ------------------------------------------------------------ SpecUrl
\* Objects constructed on a dict: values may be None, "", or hold '&'.
CtorKeys == {<<"a">>, <<"b">>, <<"c">>, <<"d">>}
CtorVals == {None, Some(<<>>), Some(<<"1">>), Some(<<"&">>)}

\* The dicts of at most n entries.
RECURSIVE CtorDicts(_)
CtorDicts(n) ==
    IF n = 0 THEN {<<>>}
    ELSE LET less == CtorDicts(n - 1)
             longest == {d \in less : Len(d) = n - 1}
         IN  less \cup
             UNION {{Append(d, <<k, v>>) : k \in CtorKeys \ Keys(d), v \in CtorVals}
                       : d \in longest}

InitUrl == \E d \in CtorDicts(MaxEntries) : Construct(Some(d))

url_set_params == set_params_from(SmallInputs)

NextUrl ==
    \/ url_set_params
    \/ reset_url
    \/ subdir_name

SpecUrl == InitUrl /\ [][NextUrl]_vars

\* ============================================================ properties
\* Helpers of the properties, written from their wording rather than from
\* the methods.
DistinctKeys(d) == \A i, j \in 1..Len(d) : d[i][1] = d[j][1] => i = j
NonSpace(s) == {i \in 1..Len(s) : s[i] \notin Whitespace}
Min(S) == CHOOSE x \in S : \A y \in S : x <= y
Max(S) == CHOOSE x \in S : \A y \in S : x >= y
Trim(s) == IF NonSpace(s) = {} THEN <<>>
           ELSE SubSeq(s, Min(NonSpace(s)), Max(NonSpace(s)))

Positions(s, c) == {i \in 1..Len(s) : s[i] = c}

\* The hyphen-separated segments of s, each named by the cut before it.
Cuts(s) == {0} \cup Positions(s, "-") \cup {Len(s) + 1}
Starts(s) == Cuts(s) \ {Len(s) + 1}
Seg(s, a) == SubSeq(s, a + 1, Min({c \in Cuts(s) : c > a}) - 1)

\* The fields of a segment around its '=' signs: the key is the first, the
\* value the second.
Field(seg, n) ==
    LET eqs == {0} \cup Positions(seg, "=") \cup {Len(seg) + 1}
        nth[k \in 1..n] ==
            IF k = 1 THEN 0 ELSE Min({c \in eqs : c > nth[k - 1]})
    IN  SubSeq(seg, nth[n] + 1, Min({c \in eqs : c > nth[n]}) - 1)
KeyOf(seg) == Trim(Field(seg, 1))
ValOf(seg) == Trim(Field(seg, 2))

RECURSIVE JoinWith(_, _)
JoinWith(parts, sep) ==
    IF parts = <<>> THEN <<>>
    ELSE IF Len(parts) = 1 THEN parts[1]
    ELSE parts[1] \o <<sep>> \o JoinWith(Tail(parts), sep)

IsPresent(e) == e[2] # None /\ e[2] # Some(<<>>)
Pair(e) == e[1] \o <<"=">> \o Val(e[2])
PairsOf(d) == [i \in 1..Len(d) |-> Pair(d[i])]

\* url is the base followed by the pairs of the present entries, '&' between.
UrlIsJoinedPairs ==
    LET segs == PairsOf(SelectSeq(Val(params), IsPresent))
    IN  url = base_url \o JoinWith(segs, "&")

\* The suffix of u after its last '.', all of u when it has none.
ExtOf(u) ==
    IF Positions(u, ".") = {} THEN u
    ELSE SubSeq(u, Max(Positions(u, ".")) + 1, Len(u))

HeadRaised == op = "get" /\ raised = "RequestException" /\ Len(reqs) = 1

\* ---- C1: results is set only after a get that saw status 200 with the
\* parameters set; a get whose status is not 200, or whose parameters are
\* absent, leaves results as it was.
C1_ResultsOnlyAfter200 ==
    /\ [](results # None => ok200)
    /\ [][(op' = "get" /\ (status' # Some(200) \/ params = None))
             => results' = results]_vars

C1_Witness ==
    op = "get" /\ results # None /\ status = Some(404) /\ ret = None

\* ---- C2: every HEAD and GET request of get_status and get goes to
\* url_builder of the parameters held when it is sent.
C2_RequestsUseCurrentParams ==
    op \in {"get_status", "get"} =>
        \A i \in 1..Len(reqs) : reqs[i].url = url_builder(params)

C4_UrlNeverEndsWithAmp ==
    (op \in {"init", "reset_url"} /\ params # None
        /\ SelectSeq(Val(params), IsPresent) # <<>>)
    => (UrlIsJoinedPairs /\ ~EndsWith(url, <<"&">>))

\* ---- C4 amended: the same, and no separator follows the last segment
\* (the url ends with '&' only when the last value does).
C4_UrlIsJoinedSegments ==
    (op \in {"init", "reset_url"} /\ params # None
        /\ SelectSeq(Val(params), IsPresent) # <<>>)
    => UrlIsJoinedPairs

C4_Witness ==
    /\ op = "reset_url" /\ params # None
    /\ Len(Val(params)) = 3
    /\ Len(SelectSeq(Val(params), IsPresent)) = 2
    /\ \E i \in 1..3 : Val(params)[i][2] = None

\* ---- C5: split_params raises nothing; it returns None exactly when some
\* hyphen-separated segment has no '='; otherwise the dict maps each
\* segment's trimmed key to the trimmed value of the last segment with
\* that key. None gives None.
C5_SplitParams ==
    op = "set_params" =>
        /\ raised = "none"
        /\ arg = None => params = None
        /\ arg # None =>
            LET s == Val(arg)
                key(a) == KeyOf(Seg(s, a))
            IN  /\ params = None
                    <=> \E a \in Starts(s) : Positions(Seg(s, a), "=") = {}
                /\ params # None =>
                    /\ DistinctKeys(Val(params))
                    /\ Keys(Val(params)) = {key(a) : a \in Starts(s)}
                    /\ \A a \in Starts(s) :
                         (\A b \in Starts(s) : b > a => key(b) # key(a))
                         => Lookup(Val(params), key(a))
                                = Some(ValOf(Seg(s, a)))

C5_Witness ==
    /\ op = "set_params" /\ arg # None /\ params # None
    /\ \E a, b \in Starts(Val(arg)) :
         /\ a < b
         /\ KeyOf(Seg(Val(arg), a)) = KeyOf(Seg(Val(arg), b))
         /\ ValOf(Seg(Val(arg), a)) # ValOf(Seg(Val(arg), b))
         /\ Field(Seg(Val(arg), b), 1) # KeyOf(Seg(Val(arg), b))

\* ---- C6: for parameters parsed by split_params and installed by
\* set_params, _subdir_name is the key=value pairs in order joined by '_',
\* and does not end with '_'.
C6_SubdirNameRoundTrip ==
    (op = "_subdir_name" /\ params # None) =>
        /\ ret = Some(JoinWith(PairsOf(Val(params)), "_"))
        /\ ~EndsWith(Val(ret), <<"_">>)

\* ---- images
HasImage(r) == r.large_img # None
Qualifying == SelectSeq(Val(results), HasImage)
ImageName(r) == r.title \o <<".">> \o ExtOf(Val(r.large_img))
\* The directory of the last save_images call: its argument, or the name
\* derived from the parameters.
TargetDir ==
    IF arg # None THEN Val(arg) ELSE JoinWith(PairsOf(Val(params)), "_")
Descriptors ==
    [i \in 1..Len(Qualifying) |->
        [title |-> Qualifying[i].title, url |-> Val(Qualifying[i].large_img)]]
WrittenPaths == {<<writes[i][1], writes[i][2]>> : i \in 1..Len(writes)}
SaveCompleted == op = "save_images" /\ raised = "none" /\ ret # None

\* ---- C7: save_images on results none of whose records has an image (an
\* empty list too) returns None and changes no directory and no file,
\* whether the directory name is given or derived.
C7_NoImagesNoFiles ==
    [][(op' = "save_images" /\ results # None
           /\ \A i \in 1..Len(Val(results)) : Val(results)[i].large_img = None)
       => /\ ret' = None
          /\ raised' = "none"
          /\ dirs' = dirs
          /\ files' = files
          /\ cwd' = cwd
          /\ writes' = <<>>
          /\ reqs' = <<>>]_vars

C7_Witness ==
    /\ op = "save_images" /\ arg = Some(<<"o">>) /\ ret = None
    /\ results # None /\ Len(Val(results)) >= 1
    /\ \A i \in 1..Len(Val(results)) : Val(results)[i].large_img = None
    /\ <<"o">> \notin dirs

\* ---- C8 as stated: after a save_images that completed with every
\* download succeeding, each record with an image has its file
\* dir/<title>.<ext> holding the bytes of that record's url, the returned
\* list is one descriptor per such record in order, and as many writes were
\* made as descriptors returned.
C8_EveryImageHasItsFile ==
    SaveCompleted =>
        /\ \A i \in 1..Len(Qualifying) :
             <<TargetDir, ImageName(Qualifying[i]),
               ContentOf(Val(Qualifying[i].large_img))>> \in files
        /\ Val(ret) = Descriptors
        /\ Len(writes) = Len(Val(ret))

\* ---- C8 amended: each record with an image has its file
\* dir/<title>.<ext>, holding the bytes of the url of the last record with
\* that file name; the returned list is one descriptor per such record in
\* order; one write was made per descriptor, and the files written are as
\* many as the distinct file names.
C8_LastImageOfEachNameSaved ==
    SaveCompleted =>
        /\ \A i \in 1..Len(Qualifying) :
             LET same == {j \in 1..Len(Qualifying) :
                            ImageName(Qualifying[j]) = ImageName(Qualifying[i])}
             IN  <<TargetDir, ImageName(Qualifying[i]),
                   ContentOf(Val(Qualifying[Max(same)].large_img))>> \in files
        /\ \A f \in files : \A g \in files :
             (f[1] = g[1] /\ f[2] = g[2]) => f = g
        /\ Val(ret) = Descriptors
        /\ Len(writes) = Len(Val(ret))
        /\ Cardinality(WrittenPaths)
             = Cardinality({ImageName(Qualifying[i]) : i \in 1..Len(Qualifying)})

C8_Witness ==
    /\ SaveCompleted /\ arg = Some(<<"o">>)
    /\ Len(Val(ret)) = 2
    /\ Val(ret)[1].url # Val(ret)[2].url
    /\ Cardinality(WrittenPaths) = 1

\* ---- C9: when the download of the k-th image fails, save_images raises,
\* asks for no later image, the files of the k-1 earlier images hold their
\* bytes, and no file is left empty or with other bytes than its image's.
C9_FailedDownloadLeavesNoPartialFile ==
    (op = "save_images" /\ raised = "RequestException") =>
        LET k == Len(reqs)
        IN  /\ ret = None
            /\ \A i \in 1..k : reqs[i].url = Descriptors[i].url
            /\ \A i \in 1..(k - 1) :
                 \E f \in files :
                     /\ f[1] = TargetDir
                     /\ f[2] = ImageName(Qualifying[i])
                     /\ f[3] # <<>>
            /\ \A f \in files : f[3] # <<>>

\* ---- C10: results and json are both None, or both set with results the
\* bikes list of json, whatever gets succeeded, were rejected or failed.
C10_ResultsMatchJson ==
    \/ results = None /\ json = None
    \/ /\ results # None
       /\ json # None
       /\ Val(json).has_bikes
       /\ results = Val(json).bikes

C10_Witness ==
    /\ op = "get" /\ raised \in {"KeyError", "TypeError"}
    /\ results # None /\ json # None

====
